---- MODULE Spec2Model ----
\* Model of the mahjong tile codec (src/src/lib.rs): the tile -> 6-bit code
\* mapping (ToByte), Suit::to_string and Suit::from_string, and the unit tests
\* over get_all_tiles.  Strings are sequences of byte values 0..255.
EXTENDS Integers, Sequences, FiniteSets, TLC

\* ---------------------------------------------------------------- bounds
MaxRank == 12
MaxHandLen == 2
MaxInputLen == 3

\* ------------------------------------------------------- program constants
RED_FIVE == 10
U8Max == 255
U8Bits == 8

\* ------------------------------------------------------------ tile values
\* enum Suit { Dots(u8), Bamboo(u8), Characters(u8), Wind(Wind), Dragon(Dragon) }
\* Every tile is a record with the same fields; the fields a variant does not
\* carry hold a fixed filler.
Dots(n) == [kind |-> "Dots", rank |-> n, honour |-> "-"]
Bamboo(n) == [kind |-> "Bamboo", rank |-> n, honour |-> "-"]
Characters(n) == [kind |-> "Characters", rank |-> n, honour |-> "-"]
WindTile(w) == [kind |-> "Wind", rank |-> 0, honour |-> w]
DragonTile(d) == [kind |-> "Dragon", rank |-> 0, honour |-> d]

Wind == {"South", "East", "North", "West"}
Dragon == {"White", "Red", "Green"}
U8 == 0..U8Max

Suit ==
    {Dots(n) : n \in U8} \cup {Bamboo(n) : n \in U8} \cup {Characters(n) : n \in U8}
        \cup {WindTile(w) : w \in Wind} \cup {DragonTile(d) : d \in Dragon}

\* ------------------------------------------------------ u8 bit operations
RECURSIVE BitAndN(_, _, _)
BitAndN(a, b, k) ==
    IF k = 0 THEN 0
    ELSE (IF a % 2 = 1 /\ b % 2 = 1 THEN 1 ELSE 0) + 2 * BitAndN(a \div 2, b \div 2, k - 1)

RECURSIVE BitOrN(_, _, _)
BitOrN(a, b, k) ==
    IF k = 0 THEN 0
    ELSE (IF a % 2 = 1 \/ b % 2 = 1 THEN 1 ELSE 0) + 2 * BitOrN(a \div 2, b \div 2, k - 1)

BitAnd(a, b) == BitAndN(a, b, U8Bits)
BitOr(a, b) == BitOrN(a, b, U8Bits)

\* ------------------------------------------------------------- ToByte
\* impl ToByte for Wind
Wind_to_byte(w) ==
    CASE w = "South" -> 12      \* 0x0C
      [] w = "East" -> 28       \* 0x1C
      [] w = "North" -> 44      \* 0x2C
      [] w = "West" -> 60       \* 0x3C

Dragon_to_byte_dup(d) ==
    CASE d = "White" -> 13
      [] d = "Red" -> 29
      [] d = "Green" -> 29

\* impl ToByte for Dragon
Dragon_to_byte(d) ==
    CASE d = "White" -> 13      \* 0x0D
      [] d = "Red" -> 29        \* 0x1D
      [] d = "Green" -> 45      \* 0x2D

\* the suit base OR-ed before the mask: (0x10 | n) & 0xF
to_byte_prec(t) ==
    CASE t.kind = "Dots" -> BitAnd(BitOr(16, t.rank), 15)
      [] t.kind = "Bamboo" -> BitAnd(BitOr(32, t.rank), 15)
      [] t.kind = "Characters" -> BitAnd(BitOr(48, t.rank), 15)
      [] t.kind = "Wind" -> Wind_to_byte(t.honour)
      [] t.kind = "Dragon" -> Dragon_to_byte(t.honour)

\* the rank not masked: 0x10 | n
to_byte_nomask(t) ==
    CASE t.kind = "Dots" -> BitOr(16, t.rank)
      [] t.kind = "Bamboo" -> BitOr(32, t.rank)
      [] t.kind = "Characters" -> BitOr(48, t.rank)
      [] t.kind = "Wind" -> Wind_to_byte(t.honour)
      [] t.kind = "Dragon" -> Dragon_to_byte(t.honour)

\* impl ToByte for Suit: `0x10 | n & 0xF` is 0x10 | (n & 0xF) in Rust
to_byte(t) ==
    CASE t.kind = "Dots" -> BitOr(16, BitAnd(t.rank, 15))
      [] t.kind = "Bamboo" -> BitOr(32, BitAnd(t.rank, 15))
      [] t.kind = "Characters" -> BitOr(48, BitAnd(t.rank, 15))
      [] t.kind = "Wind" -> Wind_to_byte(t.honour)
      [] t.kind = "Dragon" -> Dragon_to_byte(t.honour)

\* ------------------------------------------------------ lookup tables
\* lookup::ALPHABET: the 64 Base64 characters A-Z a-z 0-9 + /, indexed by code
ALPHABET ==
    [c \in 0..63 |->
        IF c < 26 THEN 65 + c
        ELSE IF c < 52 THEN 97 + (c - 26)
        ELSE IF c < 62 THEN 48 + (c - 52)
        ELSE IF c = 62 THEN 43 ELSE 47]

\* Option<Suit>
None == <<>>
Some(v) == <<v>>

\* the tile the code-space layout assigns to a code, if any
TileOfCode(c) ==
    LET hi == c \div 16
        lo == c % 16
    IN  IF hi \in 1..3 /\ lo <= RED_FIVE
        THEN Some(CASE hi = 1 -> Dots(lo) [] hi = 2 -> Bamboo(lo) [] hi = 3 -> Characters(lo))
        ELSE IF lo = 12
        THEN Some(WindTile(CASE hi = 0 -> "South" [] hi = 1 -> "East"
                             [] hi = 2 -> "North" [] hi = 3 -> "West"))
        ELSE IF lo = 13 /\ hi <= 2
        THEN Some(DragonTile(CASE hi = 0 -> "White" [] hi = 1 -> "Red" [] hi = 2 -> "Green"))
        ELSE None

\* lookup::INDEX: [Option<Suit>; 256], the reverse of ALPHABET
INDEX ==
    [b \in 0..U8Max |->
        IF \E c \in 0..63 : ALPHABET[c] = b
        THEN TileOfCode(CHOOSE c \in 0..63 : ALPHABET[c] = b)
        ELSE None]

\* ------------------------------------------------------------ UTF-8
IsCont(s, j) == j <= Len(s) /\ s[j] \in 128..191

RECURSIVE IsUtf8From(_, _)
IsUtf8From(s, i) ==
    IF i > Len(s) THEN TRUE
    ELSE LET b == s[i] IN
        IF b < 128 THEN IsUtf8From(s, i + 1)
        ELSE IF b \in 194..223 THEN IsCont(s, i + 1) /\ IsUtf8From(s, i + 2)
        ELSE IF b \in 224..239
        THEN /\ i + 1 <= Len(s)
             /\ s[i + 1] \in (IF b = 224 THEN 160..191 ELSE IF b = 237 THEN 128..159 ELSE 128..191)
             /\ IsCont(s, i + 2)
             /\ IsUtf8From(s, i + 3)
        ELSE IF b \in 240..244
        THEN /\ i + 1 <= Len(s)
             /\ s[i + 1] \in (IF b = 240 THEN 144..191 ELSE IF b = 244 THEN 128..143 ELSE 128..191)
             /\ IsCont(s, i + 2)
             /\ IsCont(s, i + 3)
             /\ IsUtf8From(s, i + 4)
        ELSE FALSE

\* String::from_utf8(bytes).is_ok()
IsUtf8(s) == IsUtf8From(s, 1)

\* --------------------------------------------------------- to_string
Str(s) == [panic |-> FALSE, s |-> s]
Panic == [panic |-> TRUE, s |-> <<>>]

\* hand.iter().map(|tile| ALPHABET[tile.to_byte() as usize]).collect();
\* indexing the 64-entry table out of bounds panics
RECURSIVE MapAlphabet(_, _, _)
MapAlphabet(hand, i, acc) ==
    IF i > Len(hand) THEN Str(acc)
    ELSE IF to_byte(hand[i]) > 63 THEN Panic
    ELSE MapAlphabet(hand, i + 1, Append(acc, ALPHABET[to_byte(hand[i])]))

\* the table indexed one past the code
RECURSIVE MapAlphabetOff(_, _, _)
MapAlphabetOff(hand, i, acc) ==
    IF i > Len(hand) THEN Str(acc)
    ELSE IF to_byte(hand[i]) + 1 > 63 THEN Panic
    ELSE MapAlphabetOff(hand, i + 1, Append(acc, ALPHABET[to_byte(hand[i]) + 1]))

to_string_off(hand) ==
    LET bytes == MapAlphabetOff(hand, 1, <<>>)
    IN  IF bytes.panic \/ ~IsUtf8(bytes.s) THEN Panic ELSE bytes

\* the output padded with '=' to a multiple of four characters
to_string_padded(hand) ==
    LET bytes == MapAlphabet(hand, 1, <<>>)
    IN  IF bytes.panic \/ ~IsUtf8(bytes.s) THEN Panic
        ELSE IF Len(bytes.s) % 4 = 0 /\ Len(bytes.s) > 0 THEN bytes
        ELSE Str(bytes.s \o <<61>>)

\* Suit::to_string: String::from_utf8(...).unwrap()
to_string(hand) ==
    LET bytes == MapAlphabet(hand, 1, <<>>)
    IN  IF bytes.panic \/ ~IsUtf8(bytes.s) THEN Panic ELSE bytes

\* ------------------------------------------------------- from_string
Ok(v) == [ok |-> TRUE, tiles |-> v, err |-> "-"]
Err(e) == [ok |-> FALSE, tiles |-> <<>>, err |-> e]

\* .map(|tile| match INDEX[*tile as usize] {..}).collect::<Result<Vec<_>, _>>():
\* the first Err ends the collection and is the result
RECURSIVE Collect(_, _, _)
Collect(input, i, acc) ==
    IF i > Len(input) THEN Ok(acc)
    ELSE IF INDEX[input[i]] = None THEN Err("InvalidCharacter")
    ELSE Collect(input, i + 1, Append(acc, INDEX[input[i]][1]))

\* bytes without a tile skipped instead of failing
RECURSIVE CollectSkip(_, _, _)
CollectSkip(input, i, acc) ==
    IF i > Len(input) THEN Ok(acc)
    ELSE IF INDEX[input[i]] = None THEN CollectSkip(input, i + 1, acc)
    ELSE CollectSkip(input, i + 1, Append(acc, INDEX[input[i]][1]))

\* the tiles pushed at the front
RECURSIVE CollectRev(_, _, _)
CollectRev(input, i, acc) ==
    IF i > Len(input) THEN Ok(acc)
    ELSE IF INDEX[input[i]] = None THEN Err("InvalidCharacter")
    ELSE CollectRev(input, i + 1, <<INDEX[input[i]][1]>> \o acc)

\* only the last byte decides the result
RECURSIVE CollectLast(_, _, _)
CollectLast(input, i, acc) ==
    IF i > Len(input) THEN Ok(acc)
    ELSE IF INDEX[input[i]] = None
    THEN (IF i = Len(input) THEN Err("InvalidCharacter") ELSE CollectLast(input, i + 1, acc))
    ELSE CollectLast(input, i + 1, Append(acc, INDEX[input[i]][1]))

from_string_skip(input) == CollectSkip(input, 1, <<>>)
from_string_rev(input) == CollectRev(input, 1, <<>>)
from_string_last(input) == CollectLast(input, 1, <<>>)

\* Suit::from_string
from_string(input) == Collect(input, 1, <<>>)

\* ------------------------------------------------------ get_all_tiles
\* for suit in [Dots, Bamboo, Characters] { for i in 0..0xA { push(suit(i)) } }
\* then the four winds, then the three dragons
get_all_tiles ==
    [i \in 1..10 |-> Dots(i - 1)] \o [i \in 1..10 |-> Bamboo(i - 1)]
        \o [i \in 1..10 |-> Characters(i - 1)]
        \o <<WindTile("South"), WindTile("East"), WindTile("North"), WindTile("West")>>
        \o <<DragonTile("White"), DragonTile("Red"), DragonTile("Green")>>

\* the hand of the tests serializes_hand_correctly / deserializes_hand_correctly
TestHand ==
    <<Characters(2), Characters(3), Characters(4), Characters(5), Characters(6),
      Characters(7), Dots(4), Dots(5), Dots(6), Dots(7), Dots(7),
      Bamboo(4), Bamboo(5), Bamboo(6)>>

\* "yz0123UVWXXklm"
TestText == <<121, 122, 48, 49, 50, 51, 85, 86, 87, 88, 88, 107, 108, 109>>

\* ------------------------------------------------------------ inputs
SeqsUpTo(S, n) == UNION {[1..k -> S] : k \in 0..n}

RankSample == (0..MaxRank) \cup {26, U8Max}

SampleTiles ==
    {Dots(n) : n \in RankSample} \cup {Bamboo(n) : n \in RankSample}
        \cup {Characters(n) : n \in RankSample}
        \cup {WindTile(w) : w \in Wind} \cup {DragonTile(d) : d \in Dragon}

Hands ==
    SeqsUpTo(SampleTiles, MaxHandLen) \cup {<<t>> : t \in Suit}
        \cup {TestHand, get_all_tiles}

\* 'A' 'Q' 'a' 'q' 'M' 'c' '9' '/' '!' ' ' and the two bytes of U+00E9
SampleBytes == {65, 81, 97, 113, 77, 99, 57, 47, 33, 32, 195, 169}

\* &str: the input of from_string is valid UTF-8
Inputs ==
    {s \in SeqsUpTo(SampleBytes, MaxInputLen) : IsUtf8(s)}
        \cup {<<b>> : b \in 0..127}
        \cup {<<a, b>> : a \in 194..223, b \in 128..191}
        \cup {<<226, 130, 172>>, <<240, 159, 152, 128>>, TestText}

TilePairs == (SampleTiles \X SampleTiles) \cup {<<t, t>> : t \in Suit}

\* ------------------------------------------------------------- state
VARIABLES op, pc, hand, text, enc, res, tile, other, code, otherCode, passed

vars == <<op, pc, hand, text, enc, res, tile, other, code, otherCode, passed>>

Init ==
    /\ pc = "start"
    /\ enc = Str(<<>>)
    /\ res = Ok(<<>>)
    /\ code = 0
    /\ otherCode = 0
    /\ passed = FALSE
    /\ \/ /\ op = "to_string"
          /\ hand \in Hands
          /\ text = <<>>
          /\ tile = Dots(0)
          /\ other = Dots(0)
       \/ /\ op = "from_string"
          /\ hand = <<>>
          /\ text \in Inputs
          /\ tile = Dots(0)
          /\ other = Dots(0)
       \/ /\ op = "to_byte"
          /\ hand = <<>>
          /\ text = <<>>
          /\ \E p \in TilePairs : tile = p[1] /\ other = p[2]
       \/ /\ op \in {"no_value_above_0x3f", "no_duplicate_values"}
          /\ hand = <<>>
          /\ text = <<>>
          /\ tile = Dots(0)
          /\ other = Dots(0)

\* Suit::to_string(&hand)
Encode ==
    /\ pc = "start" /\ op = "to_string"
    /\ enc' = to_string(hand)
    /\ pc' = "encoded"
    /\ UNCHANGED <<op, hand, text, res, tile, other, code, otherCode, passed>>

\* Suit::from_string of the string to_string returned
DecodeEncoded ==
    /\ pc = "encoded" /\ op = "to_string"
    /\ ~enc.panic
    /\ res' = from_string(enc.s)
    /\ pc' = "done"
    /\ UNCHANGED <<op, hand, text, enc, tile, other, code, otherCode, passed>>

\* Suit::from_string(input)
Decode ==
    /\ pc = "start" /\ op = "from_string"
    /\ res' = from_string(text)
    /\ pc' = "decoded"
    /\ UNCHANGED <<op, hand, text, enc, tile, other, code, otherCode, passed>>

\* Suit::to_string of the tiles from_string returned
EncodeDecoded ==
    /\ pc = "decoded" /\ op = "from_string"
    /\ res.ok
    /\ enc' = to_string(res.tiles)
    /\ pc' = "done"
    /\ UNCHANGED <<op, hand, text, res, tile, other, code, otherCode, passed>>

\* tile.to_byte() on two tiles
ToByte ==
    /\ pc = "start" /\ op = "to_byte"
    /\ code' = to_byte(tile)
    /\ otherCode' = to_byte(other)
    /\ pc' = "done"
    /\ UNCHANGED <<op, hand, text, enc, res, tile, other, passed>>

\* #[test] no_value_above_0x3f
no_value_above_0x3f ==
    /\ pc = "start" /\ op = "no_value_above_0x3f"
    /\ passed' = \A i \in 1..Len(get_all_tiles) : to_byte(get_all_tiles[i]) <= 63
    /\ pc' = "done"
    /\ UNCHANGED <<op, hand, text, enc, res, tile, other, code, otherCode>>

\* #[test] no_duplicate_values: vec.len() == hash.len()
no_duplicate_values ==
    /\ pc = "start" /\ op = "no_duplicate_values"
    /\ LET vec == [i \in 1..Len(get_all_tiles) |-> to_byte(get_all_tiles[i])]
           hash == {vec[i] : i \in 1..Len(vec)}
       IN  passed' = (Len(vec) = Cardinality(hash))
    /\ pc' = "done"
    /\ UNCHANGED <<op, hand, text, enc, res, tile, other, code, otherCode>>

Next ==
    \/ Encode
    \/ DecodeEncoded
    \/ Decode
    \/ EncodeDecoded
    \/ ToByte
    \/ no_value_above_0x3f
    \/ no_duplicate_values

Spec == Init /\ [][Next]_vars

\* ===================================================================
\* Properties
\* ===================================================================

\* the 64 characters A-Z a-z 0-9 + / and the code each stands for
AlphabetChars == (65..90) \cup (97..122) \cup (48..57) \cup {43, 47}

Base64Index(b) ==
    IF b \in 65..90 THEN b - 65
    ELSE IF b \in 97..122 THEN b - 71
    ELSE IF b \in 48..57 THEN b + 4
    ELSE IF b = 43 THEN 62 ELSE 63

\* the tiles of the code-space layout: ranks 0..=0xA, winds, dragons
LayoutTiles ==
    {Dots(n) : n \in 0..RED_FIVE} \cup {Bamboo(n) : n \in 0..RED_FIVE}
        \cup {Characters(n) : n \in 0..RED_FIVE}
        \cup {WindTile(w) : w \in Wind} \cup {DragonTile(d) : d \in Dragon}

LayoutCodes == (16..26) \cup (32..42) \cup (48..58) \cup {12, 28, 44, 60} \cup {13, 29, 45}

LayoutChars == {b \in AlphabetChars : Base64Index(b) \in LayoutCodes}

EnumeratedTiles == {get_all_tiles[i] : i \in 1..Len(get_all_tiles)}

LayoutCode(t) ==
    CASE t.kind = "Dots" -> 16 + (t.rank % 16)
      [] t.kind = "Bamboo" -> 32 + (t.rank % 16)
      [] t.kind = "Characters" -> 48 + (t.rank % 16)
      [] t = WindTile("South") -> 12
      [] t = WindTile("East") -> 28
      [] t = WindTile("North") -> 44
      [] t = WindTile("West") -> 60
      [] t = DragonTile("White") -> 13
      [] t = DragonTile("Red") -> 29
      [] t = DragonTile("Green") -> 45

\* C1: round trip -- for every tile sequence T, from_string(to_string(T))
\* is Ok of a sequence equal to T.
C1_RoundTrip ==
    (op = "to_string" /\ pc = "done") => res = Ok(hand)

\* C2: every constructible tile (any u8 rank) maps to one code in
\* [0x00, 0x3F] and no two distinct tiles map to the same code.
C2_Bijective ==
    (op = "to_byte" /\ pc = "done") =>
        /\ code \in 0..63
        /\ otherCode \in 0..63
        /\ (tile # other => code # otherCode)

\* C3: over the 37 enumerated tiles (three suits with ranks 0..9, four
\* winds, three dragons) every code is <= 0x3F and the codes are pairwise
\* distinct; the two unit tests over get_all_tiles pass.
C3_EnumeratedDistinct ==
    /\ (op = "to_byte" /\ pc = "done" /\ tile \in EnumeratedTiles /\ other \in EnumeratedTiles) =>
            /\ code <= 63
            /\ otherCode <= 63
            /\ (tile # other => code # otherCode)
    /\ (op \in {"no_value_above_0x3f", "no_duplicate_values"} /\ pc = "done") =>
            (passed /\ Cardinality(EnumeratedTiles) = 37)

C3_Witness ==
    /\ op = "to_byte" /\ pc = "done"
    /\ tile = Characters(9) /\ other = DragonTile("Green")
    /\ code = 57 /\ otherCode = 45

\* C4: to_string is position-wise and length-preserving: the output has
\* len(T) characters, the i-th being the Base64 character of index
\* to_byte(T[i]); the test hand encodes to "yz0123UVWXXklm".
C4_EncodePositionwise ==
    (op = "to_string" /\ pc # "start") =>
        /\ ~enc.panic
        /\ Len(enc.s) = Len(hand)
        /\ \A i \in 1..Len(hand) :
              enc.s[i] \in AlphabetChars /\ Base64Index(enc.s[i]) = to_byte(hand[i])
        /\ (hand = TestHand => enc.s = TestText)

C4_Witness ==
    op = "to_string" /\ pc = "encoded" /\ hand = TestHand /\ enc = Str(TestText)

\* C5: fail-fast decode -- an input with at least one byte outside the
\* 64-symbol alphabet yields Err(InvalidCharacter) and no tiles, wherever
\* the byte is.
C5_FailFast ==
    (op = "from_string" /\ pc # "start" /\ \E i \in 1..Len(text) : text[i] \notin AlphabetChars) =>
        res = Err("InvalidCharacter")

C5_Witness ==
    op = "from_string" /\ pc = "decoded" /\ text = <<81, 33, 81>> /\ ~res.ok

\* C6: to_byte follows the wire layout: suit_base | (n & 0xF) with bases
\* 0x10, 0x20, 0x30; winds 0x0C, 0x1C, 0x2C, 0x3C; dragons 0x0D, 0x1D, 0x2D;
\* Dots(10) is 0x1A and rank 0x1A gives the same code as rank 0xA.
C6_WireLayout ==
    (op = "to_byte" /\ pc = "done") =>
        /\ code = LayoutCode(tile)
        /\ otherCode = LayoutCode(other)
        /\ (tile = Dots(RED_FIVE) => code = 26)
        /\ (tile = Dots(26) => code = 26)

C6_Witness ==
    op = "to_byte" /\ pc = "done" /\ tile = Dots(26) /\ code = 26

\* C7: decode is position-wise and exact -- a string made only of the
\* characters of layout tiles decodes to Ok of as many tiles, the i-th being
\* the layout tile whose code is the Base64 index of the i-th character, so
\* that encoding the result gives the string back; "yz0123UVWXXklm" decodes
\* to the test hand.
C7_DecodePositionwise ==
    (op = "from_string" /\ pc # "start" /\ \A i \in 1..Len(text) : text[i] \in LayoutChars) =>
        /\ res.ok
        /\ Len(res.tiles) = Len(text)
        /\ \A i \in 1..Len(text) :
              res.tiles[i] \in LayoutTiles /\ to_byte(res.tiles[i]) = Base64Index(text[i])
        /\ (pc = "done" => enc = Str(text))
        /\ (text = TestText => res.tiles = TestHand)

C7_Witness ==
    op = "from_string" /\ pc = "done" /\ text = TestText /\ res = Ok(TestHand)

\* C8: empty input -- to_string of the empty hand is the empty string and
\* from_string("") is Ok of the empty hand.
C8_EmptyInput ==
    /\ (op = "to_string" /\ pc # "start" /\ hand = <<>>) => enc = Str(<<>>)
    /\ (op = "to_string" /\ pc = "done" /\ enc.s = <<>>) => res = Ok(<<>>)
    /\ (op = "from_string" /\ pc # "start" /\ text = <<>>) => res = Ok(<<>>)
    /\ (op = "from_string" /\ pc = "done" /\ res.tiles = <<>>) => enc = Str(<<>>)

C8_Witness ==
    op = "from_string" /\ pc = "done" /\ text = <<>> /\ res = Ok(<<>>) /\ enc = Str(<<>>)

\* C9: encoding never fails -- for every tile, ranks up to 255 included,
\* to_byte is below 64, so the ALPHABET index is in bounds, every byte
\* produced is ASCII and to_string returns a string without panicking.
C9_EncodeNeverFails ==
    /\ (op = "to_byte" /\ pc = "done") => (code \in 0..63 /\ otherCode \in 0..63)
    /\ ((op = "to_string" /\ pc # "start") \/ (op = "from_string" /\ pc = "done")) =>
            /\ ~enc.panic
            /\ \A i \in 1..Len(enc.s) : enc.s[i] < 128

C9_Witness ==
    op = "to_string" /\ pc = "encoded" /\ hand = <<Characters(U8Max)>> /\ enc = Str(<<47>>)

====
